---- MODULE Spec2Model ----
(***************************************************************************)
(* A model of sunset-db (src/src/lib.rs): an append-only, log-structured   *)
(* key-value store.  Files are sequences of bytes (0..255); strings are    *)
(* the sequences of their UTF-8 bytes; a u32 is the set of its one bits   *)
(* (TLC's integers are 32-bit signed, so a CRC32 does not fit in one).     *)
(***************************************************************************)
EXTENDS Integers, Sequences, FiniteSets, TLC

VARIABLES
    disk,              \* the base directory: file name -> bytes of the file
    phase,             \* "closed" before SunsetDB::new, then "open" or "failed"
    segments,          \* SunsetDB.segments: a sequence of [id, path, index]
    next_index,        \* SunsetDB.next_index
    last,              \* the last call on the Store and what it returned (for
                       \* SunsetDB::new also the segment paths it found)
    kv,                \* per file, the key -> value map of its successful writes
    nops,              \* file-changing operations (writes, corruptions) so far
    damage,            \* what went wrong so far: the records a byte of which was
                       \* corrupted, the appends cut short, the oversized inputs
    debug_assertions   \* whether debug_assert! is compiled in

vars == <<disk, phase, segments, next_index, last, kv, nops, damage, debug_assertions>>

-----------------------------------------------------------------------------
(* Bounds of the model.                                                    *)

\* file-changing operations (seeded and through the Store) in one behaviour
MaxOps == 3
\* of these, the operations that seed the directory before the Store opens
MaxSeeds == 1
\* segments a Store holds at most (caps add_new_segment)
MaxSegments == 2
\* bytes corrupted on disk in one behaviour of SpecCorrupt
MaxCorrupt == 1
\* inserts of oversized strings in one behaviour of SpecSize
MaxSized == 1
\* file-changing operations, failed ones included, in one behaviour of SpecFail
MaxFailOps == 2

\* the keys and values the operations draw from: "", "a" and "", "x"
Keys == {<<>>, <<97>>}
Values == {<<>>, <<120>>}
\* the sets of segment IDs a base directory may hold before the Store opens
DirectoryIds == {{}, {2}, {2, 3}, {2, 10}}
\* a directory entry that is no segment file: "7.txt"
ForeignName == <<55, 46, 116, 120, 116>>
\* the values a corrupted byte may take
CorruptBytes == {255}

-----------------------------------------------------------------------------
(* Results and options.                                                    *)

\* F applied to the value of v, which is evaluated once (a `let v = ...`)
Bind(v, F(_)) == CHOOSE r \in {F(x) : x \in {v}} : TRUE

Ok(v) == [ok |-> TRUE, val |-> v]
Err(e) == [ok |-> FALSE, err |-> e]
Some(v) == [some |-> TRUE, v |-> v]
None == [some |-> FALSE]

\* the error kinds of src/src/error.rs that the modelled code produces
KeyNotFound == [kind |-> "KeyNotFound"]
ValueExceedsMaxSize == [kind |-> "ValueExceedsMaxSize"]
KeyExceedsMaxSize == [kind |-> "KeyExceedsMaxSize"]
NoSegments == [kind |-> "NoSegments"]
IOError == [kind |-> "IOError"]
InvalidString == [kind |-> "InvalidString"]
InvalidChecksum(expected, found) ==
    [kind |-> "InvalidChecksum", expected |-> expected, found |-> found]
\* GetError::ReadError and SegmentError::ReadError wrap a ReadError
ReadError(e) == [kind |-> "ReadError", source |-> e]
InvalidIndexFormat == [kind |-> "InvalidIndexFormat"]
InvalidPath == [kind |-> "InvalidPath"]
IOErrorAtPath == [kind |-> "IOErrorAtPath"]
NotAnInt == [kind |-> "NotAnInt"]
IDFromEmtpyPath == [kind |-> "IDFromEmtpyPath"]
\* a failed debug_assert! aborts the operation with a panic, not an error value
Panic == [kind |-> "Panic"]

-----------------------------------------------------------------------------
(* Sizes and the tombstone.                                                *)

ENCODED_LEN_SIZE == 8
CRC32_SIZE == 4
\* (1u64 << 63).to_be_bytes()
ENCODED_TOMBSTONE == <<128, 0, 0, 0, 0, 0, 0, 0>>

\* n.to_be_bytes() on w bytes, most significant first
RECURSIVE to_be_bytes(_, _)
to_be_bytes(n, w) ==
    IF w = 0 THEN <<>> ELSE Append(to_be_bytes(n \div 256, w - 1), n % 256)

\* a length of 2^31 - 1 or more: larger than every file of the model
HugeLen == 2147483647

\* u64::from_be_bytes; a value that does not fit TLC's integers is HugeLen,
\* which every use compares with a file length far below it
RECURSIVE be_value(_)
be_value(bytes) ==
    IF bytes = <<>> THEN 0
    ELSE 256 * be_value(SubSeq(bytes, 1, Len(bytes) - 1)) + bytes[Len(bytes)]

parse_u64_bytes(bytes) ==
    IF (\A i \in 1..4 : bytes[i] = 0) /\ bytes[5] < 128
    THEN be_value(SubSeq(bytes, 5, 8))
    ELSE HugeLen

-----------------------------------------------------------------------------
(* 64-bit lengths.  A usize / u64 is four 16-bit limbs, the most           *)
(* significant first, so that lengths up to 2^64 - 1 keep their width.     *)

\* the length n of a string the model holds, as a usize
usize_of(n) == <<0, 0, n \div 65536, n % 65536>>

\* a >= b on u64
u64_ge(a, b) ==
    \/ a = b
    \/ \E i \in 1..4 : a[i] > b[i] /\ \A j \in 1..(i - 1) : a[j] = b[j]

\* 1u64 << 63
TOMBSTONE == <<32768, 0, 0, 0>>

\* usize::to_be_bytes / u64::to_be_bytes
u64_to_be_bytes(n) ==
    <<n[1] \div 256, n[1] % 256, n[2] \div 256, n[2] % 256,
      n[3] \div 256, n[3] % 256, n[4] \div 256, n[4] % 256>>

\* the size check that accepts a length of exactly 2^63
value_exceeds_max_size_strict(value_len) == value_len # TOMBSTONE /\ u64_ge(value_len, TOMBSTONE)

\* value.len() as u64 >= TOMBSTONE
value_exceeds_max_size(value_len) == u64_ge(value_len, TOMBSTONE)

\* key.len() as u128 > u64::MAX as u128: no 64-bit length is above u64::MAX
key_exceeds_max_size(key_len) == \E i \in 1..4 : key_len[i] > 65535

-----------------------------------------------------------------------------
(* crc32fast::hash: CRC-32 (IEEE 802.3), reflected, polynomial 0xEDB88320. *)
(* A u32 is the set of the positions (0 = least significant) of its ones.  *)

Bits(b) == {i \in 0..7 : (b \div (2 ^ i)) % 2 = 1}
Xor(S, T) == (S \ T) \cup (T \ S)
Shr(S) == {i - 1 : i \in S \ {0}}
CrcPoly == {31, 30, 29, 27, 26, 24, 23, 21, 20, 19, 15, 9, 8, 5}

RECURSIVE CrcShift(_, _)
CrcShift(c, n) ==
    IF n = 0 THEN c
    ELSE CrcShift(IF 0 \in c THEN Xor(Shr(c), CrcPoly) ELSE Shr(c), n - 1)

\* the lookup table of the byte-wise algorithm: the CRC of each low byte
CrcTable == [b \in 0..255 |-> CrcShift(Bits(b), 8)]

LowByte(S) ==
    LET bit(i, w) == IF i \in S THEN w ELSE 0
    IN  bit(0, 1) + bit(1, 2) + bit(2, 4) + bit(3, 8)
        + bit(4, 16) + bit(5, 32) + bit(6, 64) + bit(7, 128)
Shr8(S) == {i - 8 : i \in S \ (0..7)}

\* crc = table[(crc ^ byte) & 0xFF] ^ (crc >> 8), byte by byte
RECURSIVE CrcUpdate(_, _)
CrcUpdate(c, bytes) ==
    IF bytes = <<>> THEN c
    ELSE CrcUpdate(Xor(CrcTable[LowByte(Xor(c, Bits(Head(bytes))))], Shr8(c)),
                   Tail(bytes))

crc32(bytes) == (0..31) \ CrcUpdate(0..31, bytes)

ByteAt(S, base) ==
    LET bit(i, w) == IF base + i \in S THEN w ELSE 0
    IN  bit(0, 1) + bit(1, 2) + bit(2, 4) + bit(3, 8)
        + bit(4, 16) + bit(5, 32) + bit(6, 64) + bit(7, 128)

\* u32::to_be_bytes and u32::from_be_bytes
u32_to_be_bytes(S) == <<ByteAt(S, 24), ByteAt(S, 16), ByteAt(S, 8), ByteAt(S, 0)>>
u32_from_be_bytes(bytes) ==
    UNION {{8 * (4 - j) + i : i \in Bits(bytes[j])} : j \in 1..4}

-----------------------------------------------------------------------------
(* String::from_utf8: whether a byte sequence is well-formed UTF-8.        *)

IsCont(b) == b >= 128 /\ b <= 191

RECURSIVE IsUtf8(_)
IsUtf8(bytes) ==
    IF bytes = <<>> THEN TRUE
    ELSE LET b == bytes[1]
             n == Len(bytes)
             rest(k) == SubSeq(bytes, k + 1, n)
         IN  IF b < 128 THEN IsUtf8(rest(1))
             ELSE IF b >= 194 /\ b <= 223
             THEN n >= 2 /\ IsCont(bytes[2]) /\ IsUtf8(rest(2))
             ELSE IF b >= 224 /\ b <= 239
             THEN /\ n >= 3
                  /\ IsCont(bytes[2]) /\ IsCont(bytes[3])
                  /\ (b = 224 => bytes[2] >= 160)
                  /\ (b = 237 => bytes[2] <= 159)
                  /\ IsUtf8(rest(3))
             ELSE IF b >= 240 /\ b <= 244
             THEN /\ n >= 4
                  /\ IsCont(bytes[2]) /\ IsCont(bytes[3]) /\ IsCont(bytes[4])
                  /\ (b = 240 => bytes[2] >= 144)
                  /\ (b = 244 => bytes[2] <= 143)
                  /\ IsUtf8(rest(4))
             ELSE FALSE

-----------------------------------------------------------------------------
(* The record codec.  A file is the sequence of its bytes; a position pos   *)
(* is the number of bytes before the cursor.                                *)

\* the tombstone written over the end of the file
append_deletion_in_place(file) ==
    SubSeq(file, 1, Len(file) - ENCODED_LEN_SIZE) \o ENCODED_TOMBSTONE

\* -- <TOMBSTONE> --
append_deletion(file) == file \o ENCODED_TOMBSTONE

\* -- <len> || <string> || <checksum> --
append_string(file, b) ==
    file \o to_be_bytes(Len(b), ENCODED_LEN_SIZE) \o b \o u32_to_be_bytes(crc32(b))

\* read_exact of n bytes at pos: fails (UnexpectedEof) when fewer are left
CanRead(file, pos, n) == n <= Len(file) - pos
BytesAt(file, pos, n) == SubSeq(file, pos + 1, pos + n)

\* read_checked_payload reporting the stored checksum as `expected`
read_checked_payload_swapped(file, at, string_len) ==
    IF ~CanRead(file, at, string_len) THEN Err(IOError)
    ELSE IF ~CanRead(file, at + string_len, CRC32_SIZE) THEN Err(IOError)
    ELSE
    Bind(BytesAt(file, at, string_len), LAMBDA encoded_string :
    Bind(u32_from_be_bytes(BytesAt(file, at + string_len, CRC32_SIZE)), LAMBDA checksum :
    Bind(crc32(encoded_string), LAMBDA expected :
        IF checksum # expected
        THEN Err(InvalidChecksum(u32_to_be_bytes(checksum), u32_to_be_bytes(expected)))
        ELSE IF ~IsUtf8(encoded_string) THEN Err(InvalidString)
        ELSE Ok([val |-> Some(encoded_string),
                 pos |-> at + string_len + CRC32_SIZE]))))

\* the payload and checksum of a record whose length field ends at `at`
read_checked_payload(file, at, string_len) ==
    IF ~CanRead(file, at, string_len) THEN Err(IOError)
    ELSE IF ~CanRead(file, at + string_len, CRC32_SIZE) THEN Err(IOError)
    ELSE
    Bind(BytesAt(file, at, string_len), LAMBDA encoded_string :
    Bind(u32_from_be_bytes(BytesAt(file, at + string_len, CRC32_SIZE)), LAMBDA checksum :
    Bind(crc32(encoded_string), LAMBDA expected :
        IF checksum # expected
        THEN Err(InvalidChecksum(u32_to_be_bytes(expected), u32_to_be_bytes(checksum)))
        ELSE IF ~IsUtf8(encoded_string) THEN Err(InvalidString)
        ELSE Ok([val |-> Some(encoded_string),
                 pos |-> at + string_len + CRC32_SIZE]))))

\* Ok([val |-> Some(string) or None, pos |-> the position after the read])
read_check_string(file, pos) ==
    IF ~CanRead(file, pos, ENCODED_LEN_SIZE) THEN Err(IOError)
    ELSE
    Bind(BytesAt(file, pos, ENCODED_LEN_SIZE), LAMBDA encoded_string_len :
        IF encoded_string_len = ENCODED_TOMBSTONE
        THEN Ok([val |-> None, pos |-> pos + ENCODED_LEN_SIZE])   \* Deleted
        ELSE read_checked_payload(file, pos + ENCODED_LEN_SIZE,
                                  parse_u64_bytes(encoded_string_len)))

read_string_at_offset(file, offset) == read_check_string(file, offset)

-----------------------------------------------------------------------------
(* The index: a function from the keys it holds to their offsets.          *)

IndexNew == [k \in {} |-> 0]
IndexInsert(index, key, offset) ==
    [k \in DOMAIN index \cup {key} |-> IF k = key THEN offset ELSE index[k]]
IndexRemove(index, key) == [k \in DOMAIN index \ {key} |-> index[k]]

-----------------------------------------------------------------------------
(* Segment.                                                                *)

\* what index_from_disk does after the key record k of the entry at offset:
\* it reads the next 8 bytes and goes on with the next entry
RECURSIVE index_scan(_, _, _)
index_entry_keeps_deleted(file, offset, index, k) ==
    IF ~CanRead(file, k.pos, ENCODED_LEN_SIZE) THEN Err(ReadError(IOError))
    ELSE
    Bind(BytesAt(file, k.pos, ENCODED_LEN_SIZE), LAMBDA encoded_value_len :
        IF encoded_value_len # ENCODED_TOMBSTONE
        THEN index_scan(file, k.pos + ENCODED_LEN_SIZE
                              + parse_u64_bytes(encoded_value_len) + CRC32_SIZE,
                        IndexInsert(index, k.val.v, offset))
        ELSE index_scan(file, k.pos + ENCODED_LEN_SIZE, index))

index_entry(file, offset, index, k) ==
    IF ~CanRead(file, k.pos, ENCODED_LEN_SIZE) THEN Err(ReadError(IOError))
    ELSE
    Bind(BytesAt(file, k.pos, ENCODED_LEN_SIZE), LAMBDA encoded_value_len :
        IF encoded_value_len # ENCODED_TOMBSTONE
        THEN Bind(parse_u64_bytes(encoded_value_len), LAMBDA value_len :
                 IF value_len = HugeLen
                 THEN Err(ReadError(IOError))   \* the seek lands far past the end
                                                \* (or fails): no index is returned
                 ELSE index_scan(file, k.pos + ENCODED_LEN_SIZE + value_len + CRC32_SIZE,
                                 IndexInsert(index, k.val.v, offset)))
        ELSE index_scan(file, k.pos + ENCODED_LEN_SIZE, IndexRemove(index, k.val.v)))

\* the loop of Segment::index_from_disk, from the position offset on
index_scan(file, offset, index) ==
    IF offset = Len(file) THEN Ok(index)
    ELSE Bind(read_check_string(file, offset), LAMBDA k :
             IF ~k.ok THEN Err(ReadError(k.err))
             ELSE IF ~k.val.val.some THEN Err(InvalidIndexFormat)
             ELSE index_entry(file, offset, index, k.val))

index_from_disk(file) == index_scan(file, 0, IndexNew)

\* what one pass of the loop of index_from_disk yields
ScanDone(index) == [tag |-> "done", res |-> Ok(index)]
ScanErr(e) == [tag |-> "err", res |-> Err(e)]
ScanNext(offset, index) == [tag |-> "next", offset |-> offset, index |-> index]

\* one pass that takes a key record with nothing after it for the end of the log
scan_iteration_tolerant(file, offset, index) ==
    IF offset = Len(file) THEN ScanDone(index)
    ELSE Bind(read_check_string(file, offset), LAMBDA k :
             IF ~k.ok THEN ScanErr(ReadError(k.err))
             ELSE IF ~k.val.val.some THEN ScanErr(InvalidIndexFormat)
             ELSE IF ~CanRead(file, k.val.pos, ENCODED_LEN_SIZE) THEN ScanDone(index)
             ELSE Bind(BytesAt(file, k.val.pos, ENCODED_LEN_SIZE), LAMBDA encoded_value_len :
                      IF encoded_value_len # ENCODED_TOMBSTONE
                      THEN IF parse_u64_bytes(encoded_value_len) = HugeLen
                           THEN ScanErr(ReadError(IOError))
                           ELSE ScanNext(k.val.pos + ENCODED_LEN_SIZE
                                             + parse_u64_bytes(encoded_value_len)
                                             + CRC32_SIZE,
                                         IndexInsert(index, k.val.val.v, offset))
                      ELSE ScanNext(k.val.pos + ENCODED_LEN_SIZE,
                                    IndexRemove(index, k.val.val.v))))

\* one pass of the loop of Segment::index_from_disk with the stream at offset
scan_iteration(file, offset, index) ==
    IF offset = Len(file) THEN ScanDone(index)
    ELSE Bind(read_check_string(file, offset), LAMBDA k :
             IF ~k.ok THEN ScanErr(ReadError(k.err))
             ELSE IF ~k.val.val.some THEN ScanErr(InvalidIndexFormat)
             ELSE IF ~CanRead(file, k.val.pos, ENCODED_LEN_SIZE)
             THEN ScanErr(ReadError(IOError))
             ELSE Bind(BytesAt(file, k.val.pos, ENCODED_LEN_SIZE), LAMBDA encoded_value_len :
                      IF encoded_value_len # ENCODED_TOMBSTONE
                      THEN IF parse_u64_bytes(encoded_value_len) = HugeLen
                           THEN ScanErr(ReadError(IOError))
                           ELSE ScanNext(k.val.pos + ENCODED_LEN_SIZE
                                             + parse_u64_bytes(encoded_value_len)
                                             + CRC32_SIZE,
                                         IndexInsert(index, k.val.val.v, offset))
                      ELSE ScanNext(k.val.pos + ENCODED_LEN_SIZE,
                                    IndexRemove(index, k.val.val.v))))

\* the passes of the loop from offset on, at most `fuel` of them: the offsets
\* at which they start and what the last one yields
RECURSIVE scan_passes(_, _, _, _)
scan_passes(file, offset, index, fuel) ==
    Bind(scan_iteration(file, offset, index), LAMBDA it :
        IF it.tag # "next" \/ fuel = 0 THEN [offsets |-> <<offset>>, last |-> it]
        ELSE Bind(scan_passes(file, it.offset, it.index, fuel - 1), LAMBDA rest :
                 [offsets |-> <<offset>> \o rest.offsets, last |-> rest.last]))

\* Segment::insert on a segment whose file holds `file`: the result, the
\* segment and the file afterwards
Segment_insert_keeps_first(seg, file, key, value) ==
    [res |-> Ok(TRUE),
     seg |-> [seg EXCEPT !.index = IF key \in DOMAIN seg.index THEN seg.index
                                   ELSE IndexInsert(seg.index, key, Len(file))],
     file |-> append_string(append_string(file, key), value)]

\* Segment::insert that records the offset of the value record
Segment_insert_offset_of_value(seg, file, key, value) ==
    [res |-> Ok(TRUE),
     seg |-> [seg EXCEPT !.index = IndexInsert(seg.index, key, Len(append_string(file, key)))],
     file |-> append_string(append_string(file, key), value)]

Segment_insert(seg, file, key, value) ==
    IF value_exceeds_max_size(usize_of(Len(value)))
    THEN [res |-> Err(ValueExceedsMaxSize), seg |-> seg, file |-> file]
    ELSE IF key_exceeds_max_size(usize_of(Len(key)))
    THEN [res |-> Err(KeyExceedsMaxSize), seg |-> seg, file |-> file]
    ELSE [res |-> Ok(TRUE),
          \* offset = self.file.metadata()?.len()
          seg |-> [seg EXCEPT !.index = IndexInsert(seg.index, key, Len(file))],
          file |-> append_string(append_string(file, key), value)]

\* Segment::insert of a value of value_len bytes, more than a file of the
\* model holds: past the size checks the key record and the length of the
\* value are written, and write_all of the value fails
Segment_insert_sized_value(seg, file, key, value_len) ==
    IF value_exceeds_max_size(value_len)
    THEN [res |-> Err(ValueExceedsMaxSize), seg |-> seg, file |-> file]
    ELSE IF key_exceeds_max_size(usize_of(Len(key)))
    THEN [res |-> Err(KeyExceedsMaxSize), seg |-> seg, file |-> file]
    ELSE [res |-> Err(IOError), seg |-> seg,
          file |-> append_string(file, key) \o u64_to_be_bytes(value_len)]

\* Segment::insert of a key of key_len bytes, more than a file of the model
\* holds: past the size checks the length of the key is written, and
\* write_all of the key fails
Segment_insert_sized_key(seg, file, key_len, value) ==
    IF value_exceeds_max_size(usize_of(Len(value)))
    THEN [res |-> Err(ValueExceedsMaxSize), seg |-> seg, file |-> file]
    ELSE IF key_exceeds_max_size(key_len)
    THEN [res |-> Err(KeyExceedsMaxSize), seg |-> seg, file |-> file]
    ELSE [res |-> Err(IOError), seg |-> seg, file |-> file \o u64_to_be_bytes(key_len)]

\* the bytes that a Segment::insert and a Segment::delete append
insert_entry(key, value) == append_string(append_string(<<>>, key), value)
delete_entry(key) == append_deletion(append_string(<<>>, key))

\* a failing insert that puts the key in the index before it writes
Segment_insert_failing_index_first(seg, file, key, value, cut) ==
    [res |-> Err(IOError),
     seg |-> [seg EXCEPT !.index = IndexInsert(seg.index, key, Len(file))],
     file |-> file \o SubSeq(insert_entry(key, value), 1, cut)]

\* Segment::insert when metadata(), seek or write_all fails after `cut` bytes
\* of the entry have reached the file: `?` returns before index.insert
Segment_insert_failing(seg, file, key, value, cut) ==
    IF value_exceeds_max_size(usize_of(Len(value)))
    THEN [res |-> Err(ValueExceedsMaxSize), seg |-> seg, file |-> file]
    ELSE IF key_exceeds_max_size(usize_of(Len(key)))
    THEN [res |-> Err(KeyExceedsMaxSize), seg |-> seg, file |-> file]
    ELSE [res |-> Err(IOError), seg |-> seg,
          file |-> file \o SubSeq(insert_entry(key, value), 1, cut)]

\* Segment::delete when seek or write_all fails after `cut` bytes of the
\* entry have reached the file: `?` returns before index.remove
Segment_delete_failing(seg, file, key, cut) ==
    [res |-> Err(IOError), seg |-> seg,
     file |-> file \o SubSeq(delete_entry(key), 1, cut)]

\* Segment::delete: both appends come before the index is looked at
Segment_delete(seg, file, key) ==
    [res |-> IF key \in DOMAIN seg.index THEN Ok(TRUE) ELSE Err(KeyNotFound),
     seg |-> [seg EXCEPT !.index = IndexRemove(seg.index, key)],
     file |-> append_deletion(append_string(file, key))]

\* the debug_assert! of Segment::get: the key record at the indexed offset
\* decodes to the key
KeyAtOffset(file, offset, key) ==
    Bind(read_string_at_offset(file, offset), LAMBDA r :
        r.ok /\ r.val.val.some /\ r.val.val.v = key)

\* Segment::get past the index lookup
get_at(file, offset, key, debug) ==
    IF debug /\ ~KeyAtOffset(file, offset, key) THEN Err(Panic)
    ELSE Bind(read_string_at_offset(
                  file, offset + ENCODED_LEN_SIZE + Len(key) + CRC32_SIZE),
              LAMBDA value :
                  IF ~value.ok THEN Err(ReadError(value.err))
                  ELSE IF ~value.val.val.some THEN Err(KeyNotFound)
                  ELSE Ok(value.val.val.v))

\* Segment::get; `debug` says whether debug assertions are compiled in
Segment_get(seg, file, key, debug) ==
    IF key \notin DOMAIN seg.index THEN Err(KeyNotFound)
    ELSE get_at(file, seg.index[key], key, debug)

-----------------------------------------------------------------------------
(* Paths: the file names of the base directory, as byte strings.           *)

Dot == 46
\* "segment"
SEGMENT_EXT == <<115, 101, 103, 109, 101, 110, 116>>

RECURSIVE Digits(_)
Digits(n) == IF n < 10 THEN <<48 + n>> ELSE Append(Digits(n \div 10), 48 + (n % 10))

\* format!("{}.{}", id, SEGMENT_EXT), joined to the base path
path_from_id(id) == Digits(id) \o <<Dot>> \o SEGMENT_EXT

LastDot(name) ==
    LET dots == {i \in 1..Len(name) : name[i] = Dot}
    IN  IF dots = {} THEN 0 ELSE CHOOSE i \in dots : \A j \in dots : j <= i

\* Path::extension and Path::file_stem of a file name
extension(name) ==
    IF name = <<>> \/ LastDot(name) <= 1 THEN None
    ELSE Some(SubSeq(name, LastDot(name) + 1, Len(name)))
file_stem(name) ==
    IF name = <<>> THEN None
    ELSE IF LastDot(name) <= 1 THEN Some(name)
    ELSE Some(SubSeq(name, 1, LastDot(name) - 1))

IsDigit(b) == b >= 48 /\ b <= 57

RECURSIVE DigitsValue(_)
DigitsValue(s) ==
    IF s = <<>> THEN 0
    ELSE 10 * DigitsValue(SubSeq(s, 1, Len(s) - 1)) + (s[Len(s)] - 48)

\* u64::from_str (an optional '+', then decimal digits); the model holds no
\* stem of ten digits or more, which is where TLC's integers would overflow
SegmentID_from_str(s) ==
    LET digits == IF s # <<>> /\ s[1] = 43 THEN Tail(s) ELSE s
    IN  IF digits = <<>> \/ (\E i \in 1..Len(digits) : ~IsDigit(digits[i]))
           \/ Len(digits) > 9
        THEN Err(NotAnInt)
        ELSE Ok(DigitsValue(digits))

\* SegmentID::try_from that parses the whole file name
SegmentID_try_from_whole_name(path) ==
    IF ~file_stem(path).some THEN Err(IDFromEmtpyPath)
    ELSE SegmentID_from_str(path)

\* SegmentID::try_from(&Path); file names of the model are valid UTF-8
SegmentID_try_from(path) ==
    IF ~file_stem(path).some THEN Err(IDFromEmtpyPath)
    ELSE SegmentID_from_str(file_stem(path).v)

\* the order of Path (and of byte strings): lexicographic by bytes
RECURSIVE PathLess(_, _)
PathLess(a, b) ==
    IF b = <<>> THEN FALSE
    ELSE IF a = <<>> THEN TRUE
    ELSE IF a[1] # b[1] THEN a[1] < b[1]
    ELSE PathLess(Tail(a), Tail(b))

\* paths.sort()
RECURSIVE SortPaths(_)
SortPaths(S) ==
    IF S = {} THEN <<>>
    ELSE LET least == CHOOSE p \in S : \A q \in S \ {p} : PathLess(p, q)
         IN  <<least>> \o SortPaths(S \ {least})

-----------------------------------------------------------------------------
(* The base directory: a function from file names to file contents.        *)

DiskPut(d, path, file) ==
    [p \in DOMAIN d \cup {path} |-> IF p = path THEN file ELSE d[p]]

\* OpenOptions::new().create(true).read(true).write(true).open(path)
open_create(d, path) == IF path \in DOMAIN d THEN d ELSE DiskPut(d, path, <<>>)

\* Segment::new: the file is created when absent, its index read from disk
Segment_new(d, path) ==
    \* open of the empty path fails: nothing is created
    IF path = <<>> THEN [res |-> Err(IOErrorAtPath), disk |-> d]
    ELSE
    Bind(open_create(d, path), LAMBDA opened :
    Bind(index_from_disk(opened[path]), LAMBDA index :
    Bind(SegmentID_try_from(path), LAMBDA id :
        IF ~id.ok THEN [res |-> Err(InvalidPath), disk |-> opened]
        ELSE IF ~index.ok THEN [res |-> Err(index.err), disk |-> opened]
        ELSE [res |-> Ok([id |-> id.val, path |-> path, index |-> index.val]),
              disk |-> opened])))

-----------------------------------------------------------------------------
(* SunsetDB.  A store is [segments, next_index]; d is the base directory.  *)

\* the fold of `paths.iter().map(Segment::new).collect::<Result<Vec<_>, _>>()`:
\* the segments opened so far, or the first error
RECURSIVE OpenAll(_, _, _)
OpenAll(d, paths, acc) ==
    IF paths = <<>> THEN [res |-> Ok(acc), disk |-> d]
    ELSE Bind(Segment_new(d, Head(paths)), LAMBDA s :
             IF ~s.res.ok THEN [res |-> Err(s.res.err), disk |-> s.disk]
             ELSE OpenAll(s.disk, Tail(paths), Append(acc, s.res.val)))

\* SunsetDB::add_new_segment
add_new_segment(d, segs, next) ==
    Bind(Segment_new(d, path_from_id(next)), LAMBDA s :
        IF ~s.res.ok
        THEN [res |-> Err(s.res.err), disk |-> s.disk,
              segments |-> segs, next_index |-> next]
        ELSE [res |-> Ok(TRUE), disk |-> s.disk,
              segments |-> Append(segs, s.res.val), next_index |-> next + 1])

\* the paths SunsetDB::new keeps: the entries whose extension is SEGMENT_EXT
SegmentPaths(d) == {p \in DOMAIN d : extension(p) = Some(SEGMENT_EXT)}

\* next_index as SunsetDB::new sets it from the segments it opened
next_after(segs) == IF segs # <<>> THEN segs[Len(segs)].id + 1 ELSE 0

SunsetDB_new_no_initial_segment(d) ==
    Bind(OpenAll(d, SortPaths(SegmentPaths(d)), <<>>), LAMBDA all :
        IF ~all.res.ok
        THEN [res |-> Err(all.res.err), disk |-> all.disk,
              segments |-> <<>>, next_index |-> 0]
        ELSE [res |-> Ok(TRUE), disk |-> all.disk,
              segments |-> all.res.val, next_index |-> next_after(all.res.val)])

\* SunsetDB::new
SunsetDB_new(d) ==
    Bind(OpenAll(d, SortPaths(SegmentPaths(d)), <<>>), LAMBDA all :
        IF ~all.res.ok
        THEN [res |-> Err(all.res.err), disk |-> all.disk,
              segments |-> <<>>, next_index |-> 0]
        ELSE IF all.res.val = <<>>
        THEN add_new_segment(all.disk, all.res.val, next_after(all.res.val))
        ELSE [res |-> Ok(TRUE), disk |-> all.disk,
              segments |-> all.res.val, next_index |-> next_after(all.res.val)])

\* SunsetDB::insert into the last segment of the list
SunsetDB_insert_into_last(d, segs, key, value) ==
    IF segs = <<>> THEN [res |-> Err(NoSegments), disk |-> d, segments |-> segs]
    ELSE Bind(Segment_insert(segs[Len(segs)], d[segs[Len(segs)].path], key, value),
              LAMBDA r :
             [res |-> r.res, disk |-> DiskPut(d, segs[Len(segs)].path, r.file),
              segments |-> [segs EXCEPT ![Len(segs)] = r.seg]])

\* SunsetDB::insert and SunsetDB::delete: the segment at position 0
SunsetDB_insert(d, segs, key, value) ==
    IF segs = <<>> THEN [res |-> Err(NoSegments), disk |-> d, segments |-> segs]
    ELSE Bind(Segment_insert(segs[1], d[segs[1].path], key, value), LAMBDA r :
             [res |-> r.res, disk |-> DiskPut(d, segs[1].path, r.file),
              segments |-> [segs EXCEPT ![1] = r.seg]])

SunsetDB_delete(d, segs, key) ==
    IF segs = <<>> THEN [res |-> Err(NoSegments), disk |-> d, segments |-> segs]
    ELSE Bind(Segment_delete(segs[1], d[segs[1].path], key), LAMBDA r :
             [res |-> r.res, disk |-> DiskPut(d, segs[1].path, r.file),
              segments |-> [segs EXCEPT ![1] = r.seg]])

\* the loop of SunsetDB::get over segments[1..i], the last one first
RECURSIVE get_from(_, _, _, _, _)
get_from(d, segs, i, key, debug) ==
    IF i = 0 THEN Err(KeyNotFound)
    ELSE Bind(Segment_get(segs[i], d[segs[i].path], key, debug), LAMBDA r :
             IF r.ok \/ r.err = Panic THEN r
             ELSE get_from(d, segs, i - 1, key, debug))

SunsetDB_get(d, segs, key, debug) == get_from(d, segs, Len(segs), key, debug)

-----------------------------------------------------------------------------
(* The last-write-wins map a file's successful writes describe.            *)

KvOf(m, path) == IF path \in DOMAIN m THEN m[path] ELSE IndexNew
KvInsert(m, path, key, value) == DiskPut(m, path, IndexInsert(KvOf(m, path), key, value))
KvRemove(m, path, key) == DiskPut(m, path, IndexRemove(KvOf(m, path), key))

-----------------------------------------------------------------------------
(* The state machine.                                                      *)

\* the file of the i-th segment of the Store
FileOf(i) == disk[segments[i].path]

\* a base directory holding the empty files `names`
EmptyFiles(names) == [p \in names |-> <<>>]

\* the directory that holds the segments 2 and 3 also holds the foreign file
Directories ==
    {EmptyFiles({path_from_id(i) : i \in ids}
                \cup (IF ids = {2, 3} THEN {ForeignName} ELSE {})) :
        ids \in DirectoryIds}

Init ==
    /\ disk \in Directories
    /\ phase = "closed"
    /\ segments = <<>>
    /\ next_index = 0
    /\ last = [op |-> "none"]
    /\ kv = [p \in {} |-> IndexNew]
    /\ nops = 0
    /\ damage = {}
    \* on intact files the debug_assert! of Segment::get never fails, so the
    \* debug build shows every behaviour of the release build
    /\ debug_assertions = TRUE

\* Before the Store opens, a Segment opened on a file of the directory
\* (Segment::new, as in tests::segment_e2e_test) inserts a pair
SeedInsert(path, key, value) ==
    /\ phase = "closed"
    /\ nops < MaxOps /\ nops < MaxSeeds
    /\ path \in SegmentPaths(disk)
    /\ \E s \in {Segment_new(disk, path)} :
           /\ s.res.ok
           /\ \E r \in {Segment_insert(s.res.val, disk[path], key, value)} :
                  /\ disk' = DiskPut(disk, path, r.file)
                  /\ kv' = IF r.res.ok THEN KvInsert(kv, path, key, value) ELSE kv
    /\ nops' = nops + 1
    /\ UNCHANGED <<phase, segments, next_index, last, damage, debug_assertions>>

\* ... or deletes a key
SeedDelete(path, key) ==
    /\ phase = "closed"
    /\ nops < MaxOps /\ nops < MaxSeeds
    /\ path \in SegmentPaths(disk)
    /\ \E s \in {Segment_new(disk, path)} :
           /\ s.res.ok
           /\ \E r \in {Segment_delete(s.res.val, disk[path], key)} :
                  /\ disk' = DiskPut(disk, path, r.file)
                  /\ kv' = IF r.res.ok THEN KvRemove(kv, path, key) ELSE kv
    /\ nops' = nops + 1
    /\ UNCHANGED <<phase, segments, next_index, last, damage, debug_assertions>>

\* SunsetDB::new(base_path)
Open ==
    /\ phase = "closed"
    /\ \E r \in {SunsetDB_new(disk)} :
           /\ disk' = r.disk
           /\ phase' = IF r.res.ok THEN "open" ELSE "failed"
           /\ segments' = r.segments
           /\ next_index' = r.next_index
           /\ last' = [op |-> "open", res |-> r.res, found |-> SegmentPaths(disk)]
    /\ UNCHANGED <<kv, nops, damage, debug_assertions>>

\* SunsetDB::add_new_segment on the open Store
AddNewSegment ==
    /\ phase = "open"
    /\ Len(segments) < MaxSegments
    /\ \E r \in {add_new_segment(disk, segments, next_index)} :
           /\ disk' = r.disk
           /\ segments' = r.segments
           /\ next_index' = r.next_index
           /\ last' = [op |-> "add_new_segment", res |-> r.res]
    /\ UNCHANGED <<phase, kv, nops, damage, debug_assertions>>

\* SunsetDB::insert(key, value)
Insert(key, value) ==
    /\ phase = "open"
    /\ nops < MaxOps
    /\ \E r \in {SunsetDB_insert(disk, segments, key, value)} :
           /\ disk' = r.disk
           /\ segments' = r.segments
           /\ kv' = IF r.res.ok THEN KvInsert(kv, segments[1].path, key, value) ELSE kv
           /\ last' = [op |-> "insert", key |-> key, value |-> value, res |-> r.res]
    /\ nops' = nops + 1
    /\ UNCHANGED <<phase, next_index, damage, debug_assertions>>

\* SunsetDB::delete(key)
Delete(key) ==
    /\ phase = "open"
    /\ nops < MaxOps
    /\ \E r \in {SunsetDB_delete(disk, segments, key)} :
           /\ disk' = r.disk
           /\ segments' = r.segments
           /\ kv' = IF r.res.ok THEN KvRemove(kv, segments[1].path, key) ELSE kv
           /\ last' = [op |-> "delete", key |-> key, res |-> r.res]
    /\ nops' = nops + 1
    /\ UNCHANGED <<phase, next_index, damage, debug_assertions>>

\* SunsetDB::get(key)
Get(key) ==
    /\ phase = "open"
    /\ last' = [op |-> "get", key |-> key,
                res |-> SunsetDB_get(disk, segments, key, debug_assertions)]
    /\ UNCHANGED <<disk, phase, segments, next_index, kv, nops, damage, debug_assertions>>

Next ==
    \/ \E path \in DOMAIN disk, key \in Keys, value \in Values :
           SeedInsert(path, key, value)
    \/ \E path \in DOMAIN disk, key \in Keys : SeedDelete(path, key)
    \/ Open
    \/ AddNewSegment
    \/ \E key \in Keys, value \in Values : Insert(key, value)
    \/ \E key \in Keys : Delete(key)
    \/ \E key \in Keys : Get(key)

Spec == Init /\ [][Next]_vars

-----------------------------------------------------------------------------
(* Corruption of the bytes on disk.                                        *)

\* the record whose length field is at pos: its payload and checksum are the
\* bytes from+1 .. to of the file
RecordAt(file, pos) ==
    [from |-> pos + ENCODED_LEN_SIZE,
     to |-> pos + ENCODED_LEN_SIZE
            + parse_u64_bytes(BytesAt(file, pos, ENCODED_LEN_SIZE)) + CRC32_SIZE]

\* the records of a file laid out as `entry*` (key record, then value record
\* or tombstone), from the entry at offset on; length fields are never corrupted
RECURSIVE Records(_, _)
Records(file, offset) ==
    IF offset >= Len(file) THEN {}
    ELSE Bind(RecordAt(file, offset), LAMBDA k :
         Bind([entry |-> offset, part |-> "key", from |-> k.from, to |-> k.to,
               key |-> BytesAt(file, k.from, k.to - CRC32_SIZE - k.from)],
              LAMBDA krec :
                  IF BytesAt(file, k.to, ENCODED_LEN_SIZE) = ENCODED_TOMBSTONE
                  THEN {krec} \cup Records(file, k.to + ENCODED_LEN_SIZE)
                  ELSE Bind(RecordAt(file, k.to), LAMBDA v :
                           {krec, [krec EXCEPT !.part = "value",
                                               !.from = v.from, !.to = v.to]}
                           \cup Records(file, v.to))))

\* a byte of the payload or of the stored checksum of a record takes the value b
Corrupt(path, rec, i, b) ==
    /\ phase \in {"closed", "open"}
    /\ nops < MaxOps
    /\ Cardinality(damage) < MaxCorrupt
    /\ i \in (rec.from + 1)..rec.to
    /\ disk[path][i] # b
    /\ ~\E dm \in damage : dm.path = path /\ dm.entry = rec.entry
    /\ disk' = [disk EXCEPT ![path][i] = b]
    /\ damage' = damage \cup {[path |-> path, entry |-> rec.entry, part |-> rec.part,
                               key |-> rec.key, payload |-> i <= rec.to - CRC32_SIZE,
                               from |-> rec.from, to |-> rec.to,
                               written |-> BytesAt(disk[path], rec.to - CRC32_SIZE,
                                                   CRC32_SIZE)]}
    /\ nops' = nops + 1
    /\ UNCHANGED <<phase, segments, next_index, last, kv, debug_assertions>>

\* the base directories of SpecCorrupt: one segment file, or two
CorruptDirectories ==
    {EmptyFiles({path_from_id(i) : i \in ids}) : ids \in {{2}, {2, 3}}}

InitCorrupt ==
    /\ disk \in CorruptDirectories
    /\ phase = "closed"
    /\ segments = <<>>
    /\ next_index = 0
    /\ last = [op |-> "none"]
    /\ kv = [p \in {} |-> IndexNew]
    /\ nops = 0
    /\ damage = {}
    /\ debug_assertions \in BOOLEAN

NextCorrupt ==
    \/ \E path \in DOMAIN disk, key \in Keys, value \in Values :
           SeedInsert(path, key, value)
    \/ \E path \in DOMAIN disk, key \in Keys : SeedDelete(path, key)
    \/ Open
    \/ \E key \in Keys, value \in Values : Insert(key, value)
    \/ \E key \in Keys : Delete(key)
    \/ \E path \in SegmentPaths(disk) :
           \E rec \in Records(disk[path], 0), i \in 1..Len(disk[path]), b \in CorruptBytes :
               Corrupt(path, rec, i, b)

SpecCorrupt == InitCorrupt /\ [][NextCorrupt]_vars

-----------------------------------------------------------------------------
(* Strings longer than the files of the model hold, given by their length. *)

\* 2^31, 2^32, 2^55, 2^63 - 1, 2^63, 2^63 + 1, 2^63 + 2^32, 2^63 + 2^48, 2^64 - 1
SizedLens ==
    {<<0, 0, 32768, 0>>, <<0, 1, 0, 0>>, <<128, 0, 0, 0>>,
     <<32767, 65535, 65535, 65535>>, TOMBSTONE, <<32768, 0, 0, 1>>,
     <<32768, 1, 0, 0>>, <<32769, 0, 0, 0>>, <<65535, 65535, 65535, 65535>>}

\* SunsetDB::insert(key, value) with a value of value_len bytes
InsertSizedValue(key, value_len) ==
    /\ phase = "open"
    /\ nops < MaxOps
    /\ Cardinality(damage) < MaxSized
    /\ \E r \in {Segment_insert_sized_value(segments[1], FileOf(1), key, value_len)} :
           /\ disk' = DiskPut(disk, segments[1].path, r.file)
           /\ segments' = [segments EXCEPT ![1] = r.seg]
           /\ last' = [op |-> "insert_sized_value", key |-> key, value_len |-> value_len,
                       res |-> r.res, file |-> FileOf(1), index |-> segments[1].index]
    /\ damage' = damage \cup {[op |-> nops, key |-> key, value_len |-> value_len]}
    /\ nops' = nops + 1
    /\ UNCHANGED <<phase, next_index, kv, debug_assertions>>

\* SunsetDB::insert(key, value) with a key of key_len bytes
InsertSizedKey(key_len, value) ==
    /\ phase = "open"
    /\ nops < MaxOps
    /\ Cardinality(damage) < MaxSized
    /\ \E r \in {Segment_insert_sized_key(segments[1], FileOf(1), key_len, value)} :
           /\ disk' = DiskPut(disk, segments[1].path, r.file)
           /\ segments' = [segments EXCEPT ![1] = r.seg]
           /\ last' = [op |-> "insert_sized_key", key_len |-> key_len, value |-> value,
                       res |-> r.res, file |-> FileOf(1), index |-> segments[1].index]
    /\ damage' = damage \cup {[op |-> nops, key_len |-> key_len, value |-> value]}
    /\ nops' = nops + 1
    /\ UNCHANGED <<phase, next_index, kv, debug_assertions>>

\* a Store opened on an empty base directory
InitFresh ==
    /\ disk = EmptyFiles({})
    /\ phase = "closed"
    /\ segments = <<>>
    /\ next_index = 0
    /\ last = [op |-> "none"]
    /\ kv = [p \in {} |-> IndexNew]
    /\ nops = 0
    /\ damage = {}
    /\ debug_assertions = TRUE

NextSize ==
    \/ Open
    \/ \E key \in Keys, value \in Values : Insert(key, value)
    \/ \E key \in Keys, value_len \in SizedLens : InsertSizedValue(key, value_len)
    \/ \E key_len \in SizedLens, value \in Values : InsertSizedKey(key_len, value)

SpecSize == InitFresh /\ [][NextSize]_vars

-----------------------------------------------------------------------------
(* Appends cut short by an I/O error.                                      *)

\* where the write of fields of the lengths `lens`, the first at `start`,
\* may stop: before each field and in the middle of each field
RECURSIVE CutPoints(_, _)
CutPoints(start, lens) ==
    IF lens = <<>> THEN {}
    ELSE {start}
         \cup (IF Head(lens) >= 2 THEN {start + Head(lens) \div 2} ELSE {})
         \cup CutPoints(start + Head(lens), Tail(lens))

\* length, payload and checksum of the key, then of the value
InsertCuts(key, value) ==
    CutPoints(0, <<ENCODED_LEN_SIZE, Len(key), CRC32_SIZE,
                   ENCODED_LEN_SIZE, Len(value), CRC32_SIZE>>)
\* length, payload and checksum of the key, then the tombstone
DeleteCuts(key) ==
    CutPoints(0, <<ENCODED_LEN_SIZE, Len(key), CRC32_SIZE, ENCODED_LEN_SIZE>>)

\* SunsetDB::insert(key, value) that fails with an I/O error
InsertFails(key, value, cut) ==
    /\ phase = "open"
    /\ nops < MaxOps
    /\ cut \in InsertCuts(key, value)
    /\ \E r \in {Segment_insert_failing(segments[1], FileOf(1), key, value, cut)} :
           /\ disk' = DiskPut(disk, segments[1].path, r.file)
           /\ segments' = [segments EXCEPT ![1] = r.seg]
           /\ last' = [op |-> "insert", key |-> key, value |-> value, res |-> r.res]
    /\ damage' = damage \cup {[path |-> segments[1].path, at |-> Len(FileOf(1)),
                               cut |-> cut]}
    /\ nops' = nops + 1
    /\ UNCHANGED <<phase, next_index, kv, debug_assertions>>

\* SunsetDB::delete(key) that fails with an I/O error
DeleteFails(key, cut) ==
    /\ phase = "open"
    /\ nops < MaxOps
    /\ cut \in DeleteCuts(key)
    /\ \E r \in {Segment_delete_failing(segments[1], FileOf(1), key, cut)} :
           /\ disk' = DiskPut(disk, segments[1].path, r.file)
           /\ segments' = [segments EXCEPT ![1] = r.seg]
           /\ last' = [op |-> "delete", key |-> key, res |-> r.res]
    /\ damage' = damage \cup {[path |-> segments[1].path, at |-> Len(FileOf(1)),
                               cut |-> cut]}
    /\ nops' = nops + 1
    /\ UNCHANGED <<phase, next_index, kv, debug_assertions>>

NextFail ==
    /\ nops < MaxFailOps
    /\ \/ Open
       \/ \E key \in Keys, value \in Values : Insert(key, value)
       \/ \E key \in Keys : Delete(key)
       \/ \E key \in Keys, value \in Values, cut \in 0..(3 * ENCODED_LEN_SIZE) :
              InsertFails(key, value, cut)
       \/ \E key \in Keys, cut \in 0..(3 * ENCODED_LEN_SIZE) : DeleteFails(key, cut)

SpecFail == InitFresh /\ [][NextFail]_vars

-----------------------------------------------------------------------------
(* Segment IDs from paths.                                                 *)

\* the IDs whose paths are parsed
IdInputs == 0..99 \cup {12345, 999999999}

\* "", "abc.segment", "4a2.segment", "-1.segment", "+42.segment", "+.segment",
\* ".segment", "42", "042.segment", " 42.segment", "4.2.segment",
\* "100000000000000000000.segment" (2^64 < 10^20)
OddPaths ==
    {<<>>,
     <<97, 98, 99, Dot>> \o SEGMENT_EXT,
     <<52, 97, 50, Dot>> \o SEGMENT_EXT,
     <<45, 49, Dot>> \o SEGMENT_EXT,
     <<43, 52, 50, Dot>> \o SEGMENT_EXT,
     <<43, Dot>> \o SEGMENT_EXT,
     <<Dot>> \o SEGMENT_EXT,
     <<52, 50>>,
     <<48, 52, 50, Dot>> \o SEGMENT_EXT,
     <<32, 52, 50, Dot>> \o SEGMENT_EXT,
     <<52, Dot, 50, Dot>> \o SEGMENT_EXT,
     <<49>> \o [i \in 1..20 |-> 48] \o <<Dot>> \o SEGMENT_EXT}

PathInputs == {path_from_id(id) : id \in IdInputs} \cup OddPaths

\* a path is given
InitId ==
    /\ disk = EmptyFiles({})
    /\ phase = "closed"
    /\ segments = <<>>
    /\ next_index = 0
    /\ last \in {[op |-> "path", path |-> path] : path \in PathInputs}
    /\ kv = [p \in {} |-> IndexNew]
    /\ nops = 0
    /\ damage = {}
    /\ debug_assertions = TRUE

\* SegmentID::try_from(path)
ParseId ==
    /\ last.op = "path"
    /\ last' = [op |-> "segment_id", path |-> last.path,
                res |-> SegmentID_try_from(last.path)]
    /\ UNCHANGED <<disk, phase, segments, next_index, kv, nops, damage, debug_assertions>>

\* Segment::new(path)
OpenSegment ==
    /\ last.op = "path"
    /\ \E r \in {Segment_new(disk, last.path)} :
           /\ disk' = r.disk
           /\ last' = [op |-> "segment_new", path |-> last.path, res |-> r.res]
    /\ UNCHANGED <<phase, segments, next_index, kv, nops, damage, debug_assertions>>

NextId == ParseId \/ OpenSegment

SpecId == InitId /\ [][NextId]_vars

-----------------------------------------------------------------------------
(* Properties.                                                             *)

\* what a last-write-wins map m answers for key
Lookup(m, key) == IF key \in DOMAIN m THEN Ok(m[key]) ELSE Err(KeyNotFound)

SegGet(i, key) == Segment_get(segments[i], FileOf(i), key, debug_assertions)
StoreGet(key) == SunsetDB_get(disk, segments, key, debug_assertions)
IsInvalidChecksum(r) ==
    /\ ~r.ok
    /\ \/ r.err.kind = "InvalidChecksum"
       \/ r.err.kind = "ReadError" /\ r.err.source.kind = "InvalidChecksum"

\* C1: every live Segment answers get(k) as the last-write-wins map of the
\* successful inserts and deletes on its file does (the latest inserted value,
\* key-not-found when never inserted or deleted since), and so does the Store
\* when it holds exactly one segment.
C1_LastWriteWins ==
    phase = "open" =>
        \A key \in Keys :
            /\ \A i \in 1..Len(segments) :
                   SegGet(i, key) = Lookup(KvOf(kv, segments[i].path), key)
            /\ Len(segments) = 1 =>
                   StoreGet(key) = Lookup(KvOf(kv, segments[1].path), key)

\* a get on a one-segment Store returned a value for a key that was written
\* more than once
C1_Witness ==
    /\ phase = "open" /\ Len(segments) = 1
    /\ last.op = "get" /\ last.res.ok
    /\ Cardinality({r \in Records(FileOf(1), 0) :
                       r.part = "value" /\ r.key = last.key}) >= 2

\* C2: after a successful Store.insert(key, value), Store.get(key) returns value.
C2_RoundTrip ==
    (phase = "open" /\ last.op = "insert" /\ last.res.ok)
        => StoreGet(last.key) = Ok(last.value)

\* C3: after a successful Store.delete(key), Store.get(key) fails with
\* key-not-found and a second Store.delete(key) fails with key-not-found.
C3_DeleteThenGet ==
    (phase = "open" /\ last.op = "delete" /\ last.res.ok)
        => /\ StoreGet(last.key) = Err(KeyNotFound)
           /\ SunsetDB_delete(disk, segments, last.key).res = Err(KeyNotFound)

\* C4: for every live Segment, index_from_disk on its file succeeds and
\* returns the live index (same keys, same offsets).
C4_ReopenPreservesState ==
    phase = "open" =>
        \A i \in 1..Len(segments) : index_from_disk(FileOf(i)) = Ok(segments[i].index)

\* a successful delete (so the file holds a tombstone) left a segment whose
\* index still holds the empty key, and the scan of its file returns that index
C4_Witness ==
    /\ phase = "open"
    /\ last.op = "delete" /\ last.res.ok
    /\ <<>> \in DOMAIN segments[1].index
    /\ index_from_disk(FileOf(1)) = Ok(segments[1].index)

\* C5: Store.get returns what the segment with the highest ID among those
\* whose get succeeds returns, and key-not-found when none succeeds.
C5_NewestSegmentWins ==
    phase = "open" =>
        \A key \in Keys :
            LET hits == {i \in 1..Len(segments) : SegGet(i, key).ok}
            IN  IF hits = {} THEN StoreGet(key) = Err(KeyNotFound)
                ELSE \E i \in hits :
                         /\ \A j \in hits : segments[j].id <= segments[i].id
                         /\ StoreGet(key) = SegGet(i, key)

\* C6: once a byte of a record's payload or stored checksum is corrupted, the
\* scan of that file fails with invalid-checksum, and so does get of the
\* record's key, on the Segment and through the Store, while the index points
\* at that entry.
C6_ChecksumAlwaysReported ==
    \A dm \in damage :
        /\ IsInvalidChecksum(index_from_disk(disk[dm.path]))
        /\ phase = "open" =>
               \A i \in 1..Len(segments) :
                   (/\ segments[i].path = dm.path
                    /\ dm.key \in DOMAIN segments[i].index
                    /\ segments[i].index[dm.key] = dm.entry)
                   => /\ IsInvalidChecksum(SegGet(i, dm.key))
                      /\ IsInvalidChecksum(StoreGet(dm.key))

\* C7: a Store.delete that fails leaves every file and every index unchanged.
C7_FailedDeleteAtomic ==
    [][\A key \in Keys :
           (Delete(key) /\ ~last'.res.ok) => (disk' = disk /\ segments' = segments)]_vars

\* C8: an open Store holds at least one Segment; after opening a directory
\* without segment files it holds exactly one, with ID 0 and file 0.segment,
\* and next_index is 1.
C8_AtLeastOneSegment ==
    /\ phase = "open" => Len(segments) >= 1
    /\ (last.op = "open" /\ last.res.ok /\ last.found = {})
           => /\ Len(segments) = 1
              /\ segments[1].id = 0
              /\ segments[1].path = path_from_id(0)
              /\ SegmentPaths(disk) = {path_from_id(0)}
              /\ next_index = 1

\* SunsetDB::new has just opened an empty base directory
C8_Witness ==
    /\ last.op = "open" /\ last.res.ok /\ last.found = {}
    /\ phase = "open"
    /\ DOMAIN disk = {path_from_id(0)}

\* C9: after open the segment list is in strictly ascending order of ID.
C9_AscendingIds ==
    phase = "open" =>
        \A i, j \in 1..Len(segments) : i < j => segments[i].id < segments[j].id

\* C10: after a successful open next_index is one past the highest segment ID
\* found in the directory (0 if none, 1 once the initial segment is created),
\* and next_index is greater than the ID of every segment the Store holds, so
\* add_new_segment opens no file of an existing segment.
C10_NextIndexPastAll ==
    phase = "open" =>
        /\ (last.op = "open" /\ last.found # {}) =>
               \E i \in 1..Len(segments) :
                   /\ \A j \in 1..Len(segments) : segments[j].id <= segments[i].id
                   /\ next_index = segments[i].id + 1
        /\ (last.op = "open" /\ last.found = {}) => next_index = 1
        /\ \A i \in 1..Len(segments) : segments[i].id < next_index
        /\ \A i \in 1..Len(segments) : segments[i].path # path_from_id(next_index)

\* the read of the record a damage hit, as the file is now
DamagedRead(dm) == read_check_string(disk[dm.path], dm.from - ENCODED_LEN_SIZE)
\* the payload and the stored checksum of that record, as the file holds them now
DamagedPayload(dm) == BytesAt(disk[dm.path], dm.from, dm.to - CRC32_SIZE - dm.from)
DamagedStored(dm) == BytesAt(disk[dm.path], dm.to - CRC32_SIZE, CRC32_SIZE)

\* C11 (as stated): the read of a record with a corrupted byte fails with
\* invalid-checksum whose `expected` is the CRC32 written with the record,
\* whether the byte lies in the payload or in the stored checksum.
C11_ExpectedIsWritten ==
    \A dm \in damage :
        /\ ~DamagedRead(dm).ok
        /\ DamagedRead(dm).err.kind = "InvalidChecksum"
        /\ DamagedRead(dm).err.expected = dm.written

\* C11 (amended): the read of a record with a corrupted byte fails with
\* invalid-checksum whose `expected` is the CRC32 recomputed over the payload
\* as read and whose `found` is the checksum stored in the file; so the CRC32
\* written with the record is `expected` when the byte lies in the stored
\* checksum, and `found` (with `expected` differing) when it lies in the payload.
C11_ExpectedIsRecomputed ==
    \A dm \in damage :
        /\ ~DamagedRead(dm).ok
        /\ DamagedRead(dm).err.kind = "InvalidChecksum"
        /\ DamagedRead(dm).err.expected = u32_to_be_bytes(crc32(DamagedPayload(dm)))
        /\ DamagedRead(dm).err.found = DamagedStored(dm)
        /\ dm.payload => /\ DamagedRead(dm).err.found = dm.written
                         /\ DamagedRead(dm).err.expected # dm.written
        /\ ~dm.payload => /\ DamagedRead(dm).err.expected = dm.written
                          /\ DamagedRead(dm).err.found # dm.written

\* a byte of a record's payload was corrupted and the read of the record
\* reports invalid-checksum
C11_Witness ==
    \E dm \in damage :
        /\ dm.payload
        /\ ~DamagedRead(dm).ok
        /\ DamagedRead(dm).err.kind = "InvalidChecksum"

\* the length field of the value record of the entry at offset whose key is key
ValuePrefixAt(file, offset, key) ==
    BytesAt(file, offset + ENCODED_LEN_SIZE + Len(key) + CRC32_SIZE, ENCODED_LEN_SIZE)

\* C12: an insert of a value of 2^63 bytes or more (top bit of the 64-bit
\* length set) is rejected with value-exceeds-max-size and leaves the file
\* and the index as they were; no shorter value is rejected for its size, and
\* the length field written for an accepted value is never the tombstone.
C12_TombstoneBoundary ==
    /\ last.op = "insert_sized_value" =>
           /\ (last.value_len[1] >= 32768) <=> (last.res = Err(ValueExceedsMaxSize))
           /\ last.res = Err(ValueExceedsMaxSize) =>
                  /\ FileOf(1) = last.file
                  /\ segments[1].index = last.index
           /\ last.res # Err(ValueExceedsMaxSize) =>
                  /\ ValuePrefixAt(FileOf(1), Len(last.file), last.key)
                         = u64_to_be_bytes(last.value_len)
                  /\ ValuePrefixAt(FileOf(1), Len(last.file), last.key) # ENCODED_TOMBSTONE
    /\ last.op = "insert" =>
           /\ last.res.ok
           /\ ValuePrefixAt(FileOf(1), segments[1].index[last.key], last.key)
                  = to_be_bytes(Len(last.value), ENCODED_LEN_SIZE)
           /\ ValuePrefixAt(FileOf(1), segments[1].index[last.key], last.key)
                  # ENCODED_TOMBSTONE

\* an insert of a value of exactly 2^63 bytes was rejected on a segment that
\* already held an entry
C12_Witness ==
    /\ last.op = "insert_sized_value"
    /\ last.value_len = TOMBSTONE
    /\ last.res = Err(ValueExceedsMaxSize)
    /\ last.index # IndexNew
    /\ FileOf(1) = last.file /\ last.file # <<>>

\* a non-empty string of at most nine decimal digits
IsU64Decimal(s) == s # <<>> /\ Len(s) <= 9 /\ \A i \in 1..Len(s) : IsDigit(s[i])
\* the stem of a non-empty file name of PathInputs
StemOf(path) == file_stem(path).v

C14_IndexPointsAtLatestEntry ==
    phase = "open" =>
        \A i \in 1..Len(segments) : \A key \in DOMAIN segments[i].index :
            \E offset \in {segments[i].index[key]} :
                /\ read_check_string(FileOf(i), offset)
                       = Ok([val |-> Some(key),
                             pos |-> offset + ENCODED_LEN_SIZE + Len(key) + CRC32_SIZE])
                /\ \E value \in {read_check_string(
                                     FileOf(i),
                                     offset + ENCODED_LEN_SIZE + Len(key) + CRC32_SIZE)} :
                       value.ok /\ value.val.val.some
                /\ \E recs \in {Records(FileOf(i), 0)} :
                       /\ \E r \in recs : r.part = "value" /\ r.key = key /\ r.entry = offset
                       /\ \A r \in recs : r.key = key => r.entry <= offset
                /\ SegGet(i, key).ok

\* the index holds a key at an offset past an earlier entry for the same key
C14_Witness ==
    /\ phase = "open"
    /\ last.op = "insert" /\ last.res.ok
    /\ last.key \in DOMAIN segments[1].index
    /\ \E r \in Records(FileOf(1), 0) :
           r.part = "key" /\ r.key = last.key /\ r.entry < segments[1].index[last.key]

\* a is a prefix of b
IsPrefix(a, b) == Len(a) <= Len(b) /\ SubSeq(b, 1, Len(a)) = a

\* C15: no step changes a byte a file already holds (the old content is a
\* prefix of the new); a successful insert(k, v) grows the segment's file by
\* exactly 8 + |k| + 4 + 8 + |v| + 4 bytes and a successful delete(k) by
\* exactly 8 + |k| + 4 + 8 bytes; get changes no file.
C15_AppendOnly ==
    [][/\ \A p \in DOMAIN disk : p \in DOMAIN disk' /\ IsPrefix(disk[p], disk'[p])
       /\ (nops' = nops + 1 /\ last'.op = "insert" /\ last'.res.ok) =>
              Len(disk'[segments[1].path])
                  = Len(FileOf(1)) + ENCODED_LEN_SIZE + Len(last'.key) + CRC32_SIZE
                                   + ENCODED_LEN_SIZE + Len(last'.value) + CRC32_SIZE
       /\ (nops' = nops + 1 /\ last'.op = "delete" /\ last'.res.ok) =>
              Len(disk'[segments[1].path])
                  = Len(FileOf(1)) + ENCODED_LEN_SIZE + Len(last'.key) + CRC32_SIZE
                                   + ENCODED_LEN_SIZE
       /\ \A path \in DOMAIN disk, key \in Keys, value \in Values :
              SeedInsert(path, key, value) =>
                  Len(disk'[path])
                      = Len(disk[path]) + ENCODED_LEN_SIZE + Len(key) + CRC32_SIZE
                                        + ENCODED_LEN_SIZE + Len(value) + CRC32_SIZE
       /\ (nops' = nops /\ last'.op = "get") => disk' = disk]_vars

\* a successful delete has appended to a file that already held an entry
C15_Witness ==
    /\ phase = "open"
    /\ last.op = "delete" /\ last.res.ok
    /\ Len(FileOf(1)) > 2 * (ENCODED_LEN_SIZE + CRC32_SIZE) + ENCODED_LEN_SIZE + Len(last.key)
    /\ BytesAt(FileOf(1), Len(FileOf(1)) - ENCODED_LEN_SIZE, ENCODED_LEN_SIZE)
           = ENCODED_TOMBSTONE

\* C19: Store.insert and Store.delete leave the index and the file of every
\* segment but the first of the list as they were, and every other file of
\* the directory; Store.get leaves every file and every index as it was; and
\* no operation on an open Store fails with no-segments.
C19_OnlyFirstSegmentWritten ==
    [][/\ (nops' = nops + 1 /\ last'.op \in {"insert", "delete"}) =>
              /\ Len(segments') = Len(segments)
              /\ \A i \in 2..Len(segments) : segments'[i] = segments[i]
              /\ DOMAIN disk' = DOMAIN disk
              /\ \A p \in DOMAIN disk : p # segments[1].path => disk'[p] = disk[p]
              /\ last'.res # Err(NoSegments)
       /\ (nops' = nops /\ last'.op = "get") =>
              /\ disk' = disk
              /\ segments' = segments
              /\ last'.res # Err(NoSegments)]_vars

\* an insert succeeded on a Store that holds two segments, the second of
\* which is not empty
C19_Witness ==
    /\ phase = "open"
    /\ Len(segments) >= 2
    /\ last.op = "insert" /\ last.res.ok
    /\ segments[2].index # IndexNew

\* C18: the scan of the file of a live Segment, after any successful and
\* failed operations, fails or returns exactly the live index.
C18_ScanFailsOrMatches ==
    phase = "open" =>
        \E scanned \in {index_from_disk(FileOf(1))} :
            scanned.ok => scanned = Ok(segments[1].index)

\* C17: an insert or delete that returns an error (an I/O failure before,
\* within or between the appends, or key-not-found) leaves the index of the
\* segment as it was: no index entry points into the bytes it wrote, and
\* get of every key returns what it returned before.
C17_FailedWriteKeepsIndex ==
    [][(nops' = nops + 1 /\ last'.op \in {"insert", "delete"} /\ ~last'.res.ok) =>
           /\ segments' = segments
           /\ \A key \in DOMAIN segments'[1].index :
                  segments'[1].index[key] < Len(FileOf(1))
           /\ \A key \in Keys : StoreGet(key)' = StoreGet(key)]_vars

\* an insert for a key the index holds failed after its key record and part
\* of its value record were written, and get still returns the earlier value
C17_Witness ==
    /\ phase = "open"
    /\ last.op = "insert" /\ last.res = Err(IOError)
    /\ last.key \in DOMAIN segments[1].index
    /\ \E dm \in damage :
           /\ dm.at + dm.cut = Len(FileOf(1))
           /\ dm.cut > 2 * ENCODED_LEN_SIZE + CRC32_SIZE + Len(last.key)
    /\ StoreGet(last.key).ok /\ StoreGet(last.key).val # last.value

\* the scan of the file of the segment, pass by pass
ScanOfSegment == scan_passes(FileOf(1), 0, IndexNew, Len(FileOf(1)))
\* the last append to the file was cut short, and it is the only one that was
TruncatedTail ==
    /\ Cardinality(damage) = 1
    /\ \E dm \in damage : dm.cut > 0 /\ dm.at + dm.cut = Len(FileOf(1))

\* C16: on every file the scan of index_from_disk stops: each pass starts at
\* a position past the one before, and within as many passes as the file has
\* bytes the scan returns an index or an error, the one index_from_disk
\* returns; an index is returned only by a pass that starts exactly at the
\* file length; and on a file whose last entry is truncated the scan, and
\* Segment::new, fail.
C16_ScanTerminates ==
    phase = "open" =>
        \E scan \in {ScanOfSegment} :
            /\ \A i \in 1..(Len(scan.offsets) - 1) : scan.offsets[i] < scan.offsets[i + 1]
            /\ scan.last.tag \in {"done", "err"}
            /\ scan.last.res = index_from_disk(FileOf(1))
            /\ scan.last.res.ok => scan.offsets[Len(scan.offsets)] = Len(FileOf(1))
            /\ TruncatedTail =>
                   /\ ~scan.last.res.ok
                   /\ ~Segment_new(disk, segments[1].path).res.ok

\* an insert was cut short inside the checksum of its value record, after an
\* entry that is complete, and the scan fails in its second pass
C16_Witness ==
    /\ phase = "open"
    /\ TruncatedTail
    /\ last.op = "insert" /\ last.res = Err(IOError)
    /\ \E dm \in damage :
           /\ dm.at > 0
           /\ dm.cut > 2 * ENCODED_LEN_SIZE + CRC32_SIZE + Len(last.key) + Len(last.value)
    /\ Len(ScanOfSegment.offsets) >= 2
    /\ ~ScanOfSegment.last.res.ok

====
